---- MODULE Spec2Model ----
(***************************************************************************)
(* A model of tree_html.py: the recursive tree builder Node.build, the     *)
(* renderer Node.to_html with its helpers human_size and ts_to_str, and    *)
(* the driver main.                                                        *)
(*                                                                         *)
(* The filesystem is the environment.  Every call the program makes on it  *)
(* (exists, stat, is_dir, iterdir) is answered nondeterministically, one   *)
(* answer per call: the filesystem may change between any two calls, so    *)
(* two stats of one path need not agree.                                   *)
(*                                                                         *)
(* Text is a sequence of one-character strings.  A path is a sequence of   *)
(* components, each component being text.                                  *)
(***************************************************************************)
EXTENDS Integers, Sequences, FiniteSets, TLC

\* ------------------------------------------------------------------ bounds
\* Entries the filesystem returns over one whole walk, all listings together.
MaxEntries == 2
\* st_mtime is drawn from 1..MaxMTime.
MaxMTime == 2
\* human_size is applied to the byte counts within Window of 0, 1024, 1024^2
\* and 1024^3.
Window == 60
\* to_html is applied to names of at most MaxNameLen characters.
MaxNameLen == 2

\* The values of st_size, and those of st_ctime.  The program adds sizes up and
\* copies st_ctime into the node; it does nothing else with either.
Sizes == {0, 1}
CTimes == {1}
\* The names a directory listing can return.
EntryNames == { <<"a">>, <<"<", "&">> }
\* The path main resolves base_dir to.
BaseDir == << <<"r">> >>
\* The characters names are made of when to_html is applied to hand-built trees.
Alphabet == {"a", "<", ">", "&"}

VARIABLES
    pc,         \* position of main: "start", "call_build", "in_build", "render",
                \* "write", "done", "exit_error" (sys.exit), "crashed" (uncaught
                \* exception), or "human_size" when human_size alone is applied
    stack,      \* the active calls of Node.build, outermost first
    root_node,  \* main's root_node, NoNode before Node.build returned
    html_tree,  \* main's html_tree, NoText before to_html returned
    written,    \* the documents written to the output file, in order
    stderr,     \* the diagnostics printed to sys.stderr, in order
    events,     \* the steps main performed, in order: "exists" or "missing" (the
                \* answer of the existence check), "build", "render", "write"
    listed,     \* entries returned by iterdir so far (bounded by MaxEntries)
    num_bytes,  \* the argument human_size is applied to
    size_h      \* the string human_size returned, NoText before it returned

vars == <<pc, stack, root_node, html_tree, written, stderr, events, listed,
          num_bytes, size_h>>

NoNode == [none |-> TRUE]
NoText == <<"none">>
NoStat == [st_size |-> 0, st_ctime |-> 0, st_mtime |-> 0]
EmptyMap == [p \in {} |-> [st_mtime |-> 0]]

\* ------------------------------------------------------------ small helpers
Last(s) == s[Len(s)]
Front(s) == SubSeq(s, 1, Len(s) - 1)

RECURSIVE Reverse(_)
Reverse(s) == IF s = <<>> THEN <<>> ELSE <<Last(s)>> \o Reverse(Front(s))

RECURSIVE Flatten(_)
Flatten(ss) == IF ss = <<>> THEN <<>> ELSE Head(ss) \o Flatten(Tail(ss))

\* All sequences of pairwise distinct elements of S with at most n elements.
DistinctSeqs(S, n) ==
    { s \in UNION { [1..k -> S] : k \in 0..n } :
        \A i, j \in DOMAIN s : i # j => s[i] # s[j] }

\* ------------------------------------------------------------- human_size
RECURSIVE Pow1024(_)
Pow1024(k) == IF k = 0 THEN 1 ELSE 1024 * Pow1024(k - 1)

Units == <<"bytes", "KiB", "MiB", "GiB", "TiB">>

\* f"{x:.1f}" for x = n / d with d a power of 1024: the division of a float by
\* 1024.0 is exact, so x is the rational n/d, and the format rounds it to the
\* nearest tenth, a tie to the even tenth.  The result is in tenths.
FormatTenths(n, d) ==
    LET q == n \div d
        r == n % d
        t == (10 * r) \div d
        rem == (10 * r) % d
        low == 10 * q + t
    IN  IF 2 * rem > d THEN low + 1
        ELSE IF 2 * rem < d THEN low
        ELSE IF low % 2 = 0 THEN low ELSE low + 1

\* The for loop of human_size: at unit number k the running value is
\* n / 1024^(k-1), which is below 1024.0 exactly when its integer part is.
RECURSIVE SizeLoop(_, _)
SizeLoop(n, k) ==
    IF n \div Pow1024(k - 1) < 1024 \/ Units[k] = "TiB"
    THEN IF Units[k] # "bytes"
         THEN [unit |-> Units[k], tenths |-> FormatTenths(n, Pow1024(k - 1))]
         ELSE [unit |-> "bytes", tenths |-> 10 * n]
    ELSE SizeLoop(n, k + 1)

\* human_size as (unit, number shown in tenths); "byte" is the singular.
human_size_parts(n) ==
    IF n = 1 THEN [unit |-> "byte", tenths |-> 10] ELSE SizeLoop(n, 1)

Digit(d) == <<"0", "1", "2", "3", "4", "5", "6", "7", "8", "9">>[d + 1]

RECURSIVE Decimal(_)
Decimal(n) == IF n < 10 THEN <<Digit(n)>> ELSE Decimal(n \div 10) \o <<Digit(n % 10)>>

UnitText(u) ==
    CASE u = "byte" -> <<"b", "y", "t", "e">>
      [] u = "bytes" -> <<"b", "y", "t", "e", "s">>
      [] u = "KiB" -> <<"K", "i", "B">>
      [] u = "MiB" -> <<"M", "i", "B">>
      [] u = "GiB" -> <<"G", "i", "B">>
      [] u = "TiB" -> <<"T", "i", "B">>

human_size(n) ==
    LET p == human_size_parts(n)
    IN  IF p.unit \in {"byte", "bytes"}
        THEN Decimal(p.tenths \div 10) \o <<" ">> \o UnitText(p.unit)
        ELSE Decimal(p.tenths \div 10) \o <<".", Digit(p.tenths % 10)>>
               \o <<" ">> \o UnitText(p.unit)

\* -------------------------------------------------------------- ts_to_str
TwoDigits(n) == <<Digit(n \div 10), Digit(n % 10)>>

\* datetime.fromtimestamp(ts).strftime(DT_FMT), for a local time zone of UTC
\* and a timestamp within the first day of the epoch.
ts_to_str(ts) ==
    <<"1", "9", "7", "0", "-", "0", "1", "-", "0", "1", " ">>
      \o TwoDigits(ts \div 3600) \o <<":">>
      \o TwoDigits((ts % 3600) \div 60) \o <<":">>
      \o TwoDigits(ts % 60)

\* ------------------------------------------------------------ html.escape
RECURSIVE Replace(_, _, _)
Replace(s, c, t) ==
    IF s = <<>> THEN <<>>
    ELSE (IF Head(s) = c THEN t ELSE <<Head(s)>>) \o Replace(Tail(s), c, t)

\* html.escape without the pass for "&".
html_escape_without_amp(s) ==
    Replace(Replace(s, "<", <<"&", "l", "t", ";">>), ">", <<"&", "g", "t", ";">>)

\* html.escape(s, quote=False): three str.replace passes, "&" first.
html_escape(s) ==
    Replace(Replace(Replace(s, "&", <<"&", "a", "m", "p", ";">>),
                    "<", <<"&", "l", "t", ";">>),
            ">", <<"&", "g", "t", ";">>)

\* ------------------------------------------------------------------- Node
\* str(path) of a path without components, the filesystem root.
RootText == <<"/">>

PathName(path) == IF path = <<>> THEN RootText ELSE Last(path)

Node(path, is_dir, size, ctime, mtime, children) ==
    [path |-> path, name |-> PathName(path), is_dir |-> is_dir, size |-> size,
     ctime |-> ctime, mtime |-> mtime, children |-> children]

\* A ghost that is a directory.
GhostAsDirectory(path) ==
    [path |-> path, name |-> IF path = <<>> THEN <<"/">> ELSE Last(path),
     is_dir |-> TRUE, size |-> 0, ctime |-> 0, mtime |-> 0, children |-> <<>>]

\* The node Node.build returns for a path it could not stat.
Ghost(path) == Node(path, FALSE, 0, 0, 0, <<>>)

RECURSIVE SumSizes(_)
SumSizes(children) ==
    IF children = <<>> THEN 0 ELSE Head(children).size + SumSizes(Tail(children))

\* A sum that leaves the sub-directories out.
RECURSIVE DirSizeOfFilesOnly(_)
DirSizeOfFilesOnly(children) ==
    IF children = <<>> THEN 0
    ELSE (IF Head(children).is_dir THEN 0 ELSE Head(children).size)
           + DirSizeOfFilesOnly(Tail(children))

\* dir_size = sum(ch.size for ch in children)
DirSize(children) == SumSizes(children)

\* ---------------------------------------------------------------- to_html
Pad(indent) == [i \in 1..(2 * indent) |-> " "]

\* The two glyphs are one character each.
FolderGlyph == "[folder]"
FileGlyph == "[file]"

RECURSIVE to_html(_, _)
to_html(node, indent) ==
    LET esc_name == html_escape(node.name)
        created == ts_to_str(node.ctime)
        modified == ts_to_str(node.mtime)
        sz == human_size(node.size)
        pad == Pad(indent)
        meta == <<"(">> \o sz \o <<",", " ", "m", "o", "d", "i", "f", "i", "e", "d", " ">>
                  \o modified \o <<")">>
    IN  IF node.is_dir
        THEN LET header ==
                   pad \o <<"<", "d", "e", "t", "a", "i", "l", "s", " ", "o", "p", "e", "n", ">", "\n">>
                   \o pad \o <<" ", " ", "<", "s", "u", "m", "m", "a", "r", "y", ">", FolderGlyph, " ">>
                   \o <<"<", "s", "t", "r", "o", "n", "g", ">">> \o esc_name
                   \o <<"/", "<", "/", "s", "t", "r", "o", "n", "g", ">", " ">> \o meta
                   \o <<"<", "/", "s", "u", "m", "m", "a", "r", "y", ">", "\n">>
                   \o pad \o <<" ", " ", "<", "u", "l", ">", "\n">>
                 body ==
                   Flatten([i \in 1..Len(node.children) |->
                              to_html(node.children[i], indent + 2)])
                 footer ==
                   pad \o <<" ", " ", "<", "/", "u", "l", ">", "\n">>
                   \o pad \o <<"<", "/", "d", "e", "t", "a", "i", "l", "s", ">", "\n">>
             IN  header \o body \o footer
        ELSE pad \o <<"<", "l", "i", ">", FileGlyph, " ">> \o esc_name \o <<" ">>
               \o <<"<", "s", "m", "a", "l", "l", ">">> \o meta
               \o <<"<", "/", "s", "m", "a", "l", "l", ">", "<", "/", "l", "i", ">", "\n">>

\* ------------------------------------------------------------- Node.build
\* What a successful stat can return.  Times are positive, so that the zero
\* times of a ghost are told from those of an entry that was stat'd.
StatResults ==
    [st_size : Sizes, st_ctime : CTimes, st_mtime : 1..MaxMTime]

\* One diagnostic on sys.stderr: the line of the print that wrote it, and the path.
Diag(line, path) == [line |-> line, path |-> path]

\* One active call of Node.build: its position and its local variables.
\* pc is "stat" (line 72), "is_dir" (78), "list" (81), "stat_loop" (87-91) or
\* "recurse" (98); i counts the entries the loop of line 87 has gone through.
Frame(path) ==
    [path |-> path, pc |-> "stat", st |-> NoStat, raw_entries |-> <<>>,
     stat_map |-> EmptyMap, i |-> 0, entries |-> <<>>, children |-> <<>>]

top == stack[Len(stack)]

SetTop(f) == [stack EXCEPT ![Len(stack)] = f]

\* entries = [p for p in raw_entries if p in stat_map]
RECURSIVE StatOk(_, _)
StatOk(raw, map) ==
    IF raw = <<>> THEN <<>>
    ELSE (IF Head(raw) \in DOMAIN map THEN <<Head(raw)>> ELSE <<>>)
           \o StatOk(Tail(raw), map)

\* A stable sort into ascending order of the key: each element goes in after
\* the elements sorted so far whose key is not larger.
RECURSIVE SortAscending(_, _)
SortAscending(s, map) ==
    IF s = <<>> THEN <<>>
    ELSE LET t == SortAscending(Front(s), map)
             x == Last(s)
             j == Cardinality({ n \in 1..Len(t) :
                                  map[t[n]].st_mtime <= map[x].st_mtime })
         IN  SubSeq(t, 1, j) \o <<x>> \o SubSeq(t, j + 1, Len(t))

\* A descending sort that reverses an ascending one, and so the ties with it.
SortAscendingThenReverse(s, map) == Reverse(SortAscending(s, map))

\* entries.sort(key=lambda p: stat_map[p].st_mtime, reverse=True): list.sort
\* reverses the list, sorts it stably into ascending order and reverses it again.
SortByMtimeDescending(s, map) == Reverse(SortAscending(Reverse(s), map))

\* return <node>: the value goes to the caller, the list comprehension of
\* line 98 in the calling build, or main when the call is the outermost.
Deliver(node) ==
    IF Len(stack) = 1
    THEN /\ stack' = <<>>
         /\ root_node' = node
         /\ pc' = "render"
    ELSE /\ stack' = [Front(stack) EXCEPT
                        ![Len(stack) - 1].children = Append(@, node)]
         /\ UNCHANGED <<root_node, pc>>

\* Lines 71-76: st = path.stat(), or the diagnostic and the ghost node.
Stat ==
    /\ pc = "in_build" /\ stack # <<>> /\ top.pc = "stat"
    /\ \/ /\ stderr' = Append(stderr, Diag(74, top.path))
          /\ Deliver(Ghost(top.path))
       \/ /\ \E st \in StatResults :
                stack' = SetTop([top EXCEPT !.st = st, !.pc = "is_dir"])
          /\ UNCHANGED <<stderr, root_node, pc>>
    /\ UNCHANGED <<html_tree, written, events, listed, num_bytes, size_h>>

\* Lines 78 and 101-102: path.is_dir() answers true or false, or raises the
\* OSError of its own stat when that is not one of the errors it ignores; the
\* call is in no try block, so the exception leaves every active build and main.
IsDir ==
    /\ pc = "in_build" /\ stack # <<>> /\ top.pc = "is_dir"
    /\ \/ /\ stack' = SetTop([top EXCEPT !.pc = "list"])
          /\ UNCHANGED <<root_node, pc>>
       \/ Deliver(Node(top.path, FALSE, top.st.st_size, top.st.st_ctime,
                       top.st.st_mtime, <<>>))
       \/ /\ stack' = <<>>
          /\ pc' = "crashed"
          /\ UNCHANGED root_node
    /\ UNCHANGED <<html_tree, written, stderr, events, listed, num_bytes, size_h>>

\* A listing failure that gives up on the directory and returns a ghost.
ListDirFailureGivesGhost ==
    /\ pc = "in_build" /\ stack # <<>> /\ top.pc = "list"
    /\ \/ \E names \in DistinctSeqs(EntryNames, MaxEntries - listed) :
            /\ stack' = SetTop([top EXCEPT
                           !.raw_entries = [n \in 1..Len(names) |->
                                              Append(top.path, names[n])],
                           !.pc = "stat_loop"])
            /\ listed' = listed + Len(names)
            /\ UNCHANGED <<stderr, pc, root_node>>
       \/ /\ stderr' = Append(stderr, Diag(83, top.path))
          /\ Deliver(Ghost(top.path))
          /\ UNCHANGED listed
    /\ UNCHANGED <<html_tree, written, events, num_bytes, size_h>>

\* Lines 80-86: raw_entries = list(path.iterdir()), or the diagnostic and no
\* entries.  The entries of one listing have distinct names.
ListDir ==
    /\ pc = "in_build" /\ stack # <<>> /\ top.pc = "list"
    /\ \/ \E names \in DistinctSeqs(EntryNames, MaxEntries - listed) :
            /\ stack' = SetTop([top EXCEPT
                           !.raw_entries = [n \in 1..Len(names) |->
                                              Append(top.path, names[n])],
                           !.pc = "stat_loop"])
            /\ listed' = listed + Len(names)
            /\ UNCHANGED stderr
       \/ /\ stderr' = Append(stderr, Diag(83, top.path))
          /\ stack' = SetTop([top EXCEPT !.raw_entries = <<>>, !.pc = "stat_loop"])
          /\ UNCHANGED listed
    /\ UNCHANGED <<pc, root_node, html_tree, written, events, num_bytes, size_h>>

\* Lines 87-91, one round of the loop: stat_map[child] = child.stat(), or the
\* diagnostic.  Of the results kept in stat_map the program reads st_mtime only
\* (line 96), and that is the field the model keeps.
StatChild ==
    /\ pc = "in_build" /\ stack # <<>> /\ top.pc = "stat_loop"
    /\ top.i < Len(top.raw_entries)
    /\ LET child == top.raw_entries[top.i + 1]
       IN  \/ /\ \E st \in StatResults :
                    stack' = SetTop([top EXCEPT
                                 !.stat_map = (child :> [st_mtime |-> st.st_mtime])
                                                @@ top.stat_map,
                                 !.i = top.i + 1])
              /\ UNCHANGED stderr
           \/ /\ stderr' = Append(stderr, Diag(91, child))
              /\ stack' = SetTop([top EXCEPT !.i = top.i + 1])
    /\ UNCHANGED <<pc, root_node, html_tree, written, events, listed,
                   num_bytes, size_h>>

\* Lines 93-96, after the loop: drop the entries without a stat, sort the rest.
SortEntries ==
    /\ pc = "in_build" /\ stack # <<>> /\ top.pc = "stat_loop"
    /\ top.i = Len(top.raw_entries)
    /\ stack' = SetTop([top EXCEPT
                   !.entries = SortByMtimeDescending(
                                   StatOk(top.raw_entries, top.stat_map),
                                   top.stat_map),
                   !.pc = "recurse"])
    /\ UNCHANGED <<pc, root_node, html_tree, written, stderr, events, listed,
                   num_bytes, size_h>>

\* Line 98, one element of the list comprehension: cls.build(child) is called.
CallChild ==
    /\ pc = "in_build" /\ stack # <<>> /\ top.pc = "recurse"
    /\ Len(top.children) < Len(top.entries)
    /\ stack' = Append(stack, Frame(top.entries[Len(top.children) + 1]))
    /\ UNCHANGED <<pc, root_node, html_tree, written, stderr, events, listed,
                   num_bytes, size_h>>

\* Lines 99-100, when every child is built: the directory node is returned.
ReturnDir ==
    /\ pc = "in_build" /\ stack # <<>> /\ top.pc = "recurse"
    /\ Len(top.children) = Len(top.entries)
    /\ Deliver(Node(top.path, TRUE, DirSize(top.children), top.st.st_ctime,
                    top.st.st_mtime, top.children))
    /\ UNCHANGED <<html_tree, written, stderr, events, listed, num_bytes, size_h>>

\* ------------------------------------------------------------------- main
\* str(path) of an absolute path.
RECURSIVE PathText(_)
PathText(path) ==
    IF path = <<>> THEN <<>> ELSE PathText(Front(path)) \o <<"/">> \o Last(path)

\* DOC_TEMPLATE.format(...): the two fields the template takes from the walk.
build_html_document(root_path, tree_html) ==
    [root |-> html_escape(IF root_path = <<>> THEN RootText ELSE PathText(root_path)),
     tree_html |-> tree_html]

\* An existence check whose answer is not acted on.
MainExistsNotActedOn ==
    /\ pc = "start"
    /\ \E exists \in BOOLEAN :
          /\ pc' = "call_build"
          /\ events' = Append(events, IF exists THEN "exists" ELSE "missing")
    /\ UNCHANGED <<stack, root_node, html_tree, written, stderr, listed,
                   num_bytes, size_h>>

\* Lines 214-216: the existence check, and sys.exit when it fails.
MainExists ==
    /\ pc = "start"
    /\ \E exists \in BOOLEAN :
          /\ pc' = IF exists THEN "call_build" ELSE "exit_error"
          /\ events' = Append(events, IF exists THEN "exists" ELSE "missing")
    /\ UNCHANGED <<stack, root_node, html_tree, written, stderr, listed,
                   num_bytes, size_h>>

\* Line 219: Node.build(base_dir) is called.
MainBuild ==
    /\ pc = "call_build"
    /\ stack' = <<Frame(BaseDir)>>
    /\ pc' = "in_build"
    /\ events' = Append(events, "build")
    /\ UNCHANGED <<root_node, html_tree, written, stderr, listed, num_bytes, size_h>>

\* Line 222: html_tree = root_node.to_html(indent=0).
Render ==
    /\ pc = "render"
    /\ html_tree' = to_html(root_node, 0)
    /\ pc' = "write"
    /\ events' = Append(events, "render")
    /\ UNCHANGED <<stack, root_node, written, stderr, listed, num_bytes, size_h>>

\* Lines 223-225: the document is put together and written.
Write ==
    /\ pc = "write"
    /\ written' = Append(written, build_html_document(BaseDir, html_tree))
    /\ pc' = "done"
    /\ events' = Append(events, "write")
    /\ UNCHANGED <<stack, root_node, html_tree, stderr, listed, num_bytes, size_h>>

Init ==
    /\ pc = "start"
    /\ stack = <<>>
    /\ root_node = NoNode
    /\ html_tree = NoText
    /\ written = <<>>
    /\ stderr = <<>>
    /\ events = <<>>
    /\ listed = 0
    /\ num_bytes = 0
    /\ size_h = NoText

Next ==
    \/ MainExists
    \/ MainBuild
    \/ Stat
    \/ IsDir
    \/ ListDir
    \/ StatChild
    \/ SortEntries
    \/ CallChild
    \/ ReturnDir
    \/ Render
    \/ Write

Spec == Init /\ [][Next]_vars

\* ------------------------------------------- human_size and to_html alone
\* The byte counts human_size is applied to: those around each unit boundary
\* below 2^31, and two counts in the middle of the KiB range.
SampleBytes ==
    (0..Window)
      \cup { b \in UNION { (Pow1024(k) - Window)..(Pow1024(k) + Window) : k \in 1..3 } :
               b >= 0 }
      \cup {1280, 1536}

HumanSize ==
    /\ pc = "human_size"
    /\ size_h = NoText
    /\ size_h' = human_size(num_bytes)
    /\ UNCHANGED <<pc, stack, root_node, html_tree, written, stderr, events,
                   listed, num_bytes>>

InitSize ==
    /\ pc = "human_size"
    /\ stack = <<>>
    /\ root_node = NoNode
    /\ html_tree = NoText
    /\ written = <<>>
    /\ stderr = <<>>
    /\ events = <<>>
    /\ listed = 0
    /\ num_bytes \in SampleBytes
    /\ size_h = NoText

NextSize == HumanSize

SpecSize == InitSize /\ [][NextSize]_vars

\* The names to_html is applied to: every text of 1..MaxNameLen characters.
SampleNames == UNION { [1..k -> Alphabet] : k \in 1..MaxNameLen }

SampleLeaf(path) == Node(path, FALSE, 1536, 1, 2, <<>>)

SampleDir(path, children) == Node(path, TRUE, DirSize(children), 1, 3, children)

\* The trees to_html is applied to: a file, an empty directory, a directory
\* with one file, and a directory holding a directory and a file.
SampleTrees ==
    { SampleLeaf(<<a>>) : a \in SampleNames }
      \cup { SampleDir(<<a>>, <<>>) : a \in SampleNames }
      \cup { SampleDir(<<a>>, <<SampleLeaf(<<a, b>>)>>) : a, b \in SampleNames }
      \cup { SampleDir(<<>>, << SampleDir(<<a>>, <<SampleLeaf(<<a, b>>)>>),
                               SampleLeaf(<<b>>) >>) : a, b \in SampleNames }

InitHtml ==
    /\ pc = "render"
    /\ stack = <<>>
    /\ root_node \in SampleTrees
    /\ html_tree = NoText
    /\ written = <<>>
    /\ stderr = <<>>
    /\ events = <<"exists", "build">>
    /\ listed = 0
    /\ num_bytes = 0
    /\ size_h = NoText

NextHtml == Render

SpecHtml == InitHtml /\ [][NextHtml]_vars

\* ================================================================= claims
Range(s) == { s[n] : n \in DOMAIN s }

RECURSIVE NodesOf(_)
NodesOf(node) ==
    {node} \cup UNION { NodesOf(node.children[n]) : n \in DOMAIN node.children }

\* Every node there is: those of the tree main holds, and those of the
\* children built so far by the active calls of Node.build.
AllNodes ==
    (IF root_node = NoNode THEN {} ELSE NodesOf(root_node))
      \cup UNION { UNION { NodesOf(stack[k].children[n]) :
                             n \in DOMAIN stack[k].children } :
                     k \in DOMAIN stack }

\* Every children sequence there is, finished or under construction.
ChildSeqs ==
    { n.children : n \in AllNodes } \cup { stack[k].children : k \in DOMAIN stack }

IsGhost(n) ==
    /\ ~n.is_dir
    /\ n.size = 0
    /\ n.ctime = 0
    /\ n.mtime = 0
    /\ n.children = <<>>

IsPrefix(s, t) == Len(s) <= Len(t) /\ SubSeq(t, 1, Len(s)) = s

\* C1: the size of every directory node is the sum of the sizes of its direct
\* children, 0 when it has none.
C1_SizeIsSumOfChildren ==
    \A n \in AllNodes :
        n.is_dir =>
            n.size = LET RECURSIVE Total(_)
                         Total(k) == IF k = 0 THEN 0
                                     ELSE Total(k - 1) + n.children[k].size
                     IN  Total(Len(n.children))

\* A finished tree whose root holds a directory that holds a file of size 1.
C1_Witness ==
    /\ pc = "done"
    /\ root_node.is_dir
    /\ root_node.size = 1
    /\ \E n \in DOMAIN root_node.children :
          /\ root_node.children[n].is_dir
          /\ root_node.children[n].size = 1
          /\ root_node.children[n].children # <<>>

\* C2: along every children sequence the recorded mtimes never increase.
C2_RecordedMtimesNonIncreasing ==
    \A n \in AllNodes :
        \A k \in 1..(Len(n.children) - 1) :
            n.children[k].mtime >= n.children[k + 1].mtime

\* C3: no children sequence holds a ghost node.
C3_NoGhostChild ==
    \A cs \in ChildSeqs : \A k \in DOMAIN cs : ~IsGhost(cs[k])

\* C4: no failure of a filesystem call leaves Node.build as an exception.
C4_BuildNeverRaises == pc # "crashed"

\* C5: a path whose stat fails inside Node.build is returned as a ghost leaf,
\* nothing is listed or built below it, and when it is the root the run goes
\* on to render and write the document.
C5_FailedStatGivesGhost ==
    /\ \A d \in Range(stderr) :
          d.line = 74 =>
            /\ \A n \in AllNodes : n.path = d.path => IsGhost(n)
            /\ \A n \in AllNodes : ~(IsPrefix(d.path, n.path) /\ n.path # d.path)
            /\ \A e \in Range(stderr) : ~(IsPrefix(d.path, e.path) /\ e.path # d.path)
            /\ \A k \in DOMAIN stack : ~IsPrefix(d.path, stack[k].path)
            /\ pc # "crashed" => \E n \in AllNodes : n.path = d.path
    /\ Diag(74, BaseDir) \in Range(stderr) =>
          /\ pc \in {"render", "write", "done"}
          /\ stack = <<>>
          /\ IsGhost(root_node)
          /\ root_node.path = BaseDir
          /\ listed = 0
          /\ stderr = <<Diag(74, BaseDir)>>
          /\ pc = "done" => Len(written) = 1

\* The run is over, the root could not be stat'd, and the document is written.
C5_Witness ==
    /\ pc = "done"
    /\ Diag(74, BaseDir) \in Range(stderr)
    /\ IsGhost(root_node)
    /\ Len(written) = 1

\* C6: a missing root ends the run before Node.build is called and before
\* anything is written; the output is written at most once, after the
\* existence check, the build and the rendering, in that order.
C6_MainOrder ==
    /\ \/ IsPrefix(events, <<"exists", "build", "render", "write">>)
       \/ events = <<"missing">>
    /\ events = <<"missing">> =>
          /\ pc = "exit_error"
          /\ stack = <<>>
          /\ root_node = NoNode
          /\ html_tree = NoText
          /\ stderr = <<>>
          /\ written = <<>>
    /\ Len(written) <= 1
    /\ Len(written) = Cardinality({ n \in DOMAIN events : events[n] = "write" })
    /\ written # <<>> =>
          /\ events = <<"exists", "build", "render", "write">>
          /\ root_node # NoNode
          /\ html_tree # NoText
          /\ written[1].tree_html = html_tree
    /\ html_tree # NoText => root_node # NoNode /\ stack = <<>>
    /\ (root_node # NoNode \/ stack # <<>>) => IsPrefix(<<"exists", "build">>, events)

\* The root is missing and the run has ended with the fatal error.
C6_WitnessMissing == pc = "exit_error" /\ events = <<"missing">>

\* In every state: the node of a directory that could not be listed is a
\* directory without children, of size 0, with times a stat returned, and the
\* call that could not list has no entries.
C7_ListFailureState ==
    /\ \A n \in AllNodes :
          Diag(83, n.path) \in Range(stderr) =>
            /\ n.is_dir
            /\ ~IsGhost(n)
            /\ n.children = <<>>
            /\ n.size = 0
            /\ n.ctime \in CTimes
            /\ n.mtime \in 1..MaxMTime
    /\ \A k \in DOMAIN stack :
          Diag(83, stack[k].path) \in Range(stderr) =>
            /\ stack[k].pc \in {"stat_loop", "recurse"}
            /\ stack[k].raw_entries = <<>>
            /\ stack[k].entries = <<>>
            /\ stack[k].children = <<>>

\* The node the call that just returned handed to its caller.
Delivered == IF stack = <<>> THEN root_node ELSE Last(top.children)

\* In every step: the listing failure changes only the failing call, and the
\* call that could not list returns its own st_ctime and st_mtime.
C7_ListFailureStep ==
    /\ (stack # <<>> /\ top.pc = "list" /\ stderr' # stderr) =>
          /\ Len(stack') = Len(stack)
          /\ Front(stack') = Front(stack)
          /\ Last(stack') = [top EXCEPT !.pc = "stat_loop"]
          /\ stderr' = Append(stderr, Diag(83, top.path))
          /\ UNCHANGED <<pc, root_node, listed>>
    /\ (stack # <<>> /\ Diag(83, top.path) \in Range(stderr)
          /\ Len(stack') < Len(stack)) =>
          Delivered' = [path |-> top.path, name |-> Last(top.path), is_dir |-> TRUE,
                        size |-> 0, ctime |-> top.st.st_ctime,
                        mtime |-> top.st.st_mtime, children |-> <<>>]

\* C7: a directory whose stat succeeded and whose listing failed is returned
\* as a directory node (not a ghost) with the ctime and mtime of its own stat,
\* no children and size 0; the failure changes nothing in the calls around it.
C7_ListFailure == []C7_ListFailureState /\ [][C7_ListFailureStep]_vars

\* A finished tree whose root holds a directory that could not be listed, next
\* to a file of size 1.
C7_Witness ==
    /\ pc = "done"
    /\ root_node.is_dir
    /\ Len(root_node.children) = 2
    /\ root_node.size = 1
    /\ \E n \in DOMAIN root_node.children :
          /\ root_node.children[n].is_dir
          /\ Diag(83, root_node.children[n].path) \in Range(stderr)

IndexIn(s, x) == CHOOSE n \in DOMAIN s : s[n] = x

\* C10: the entries of a directory are the enumeration order without the
\* entries that could not be stat'd, reordered by descending mtime as the
\* parent's stat read it, entries of equal mtime staying in enumeration order;
\* the children are built in that order.

C10_StableDescending ==
    \A k \in DOMAIN stack :
        LET f == stack[k] IN
        f.pc = "recurse" =>
            /\ Range(f.entries) = Range(f.raw_entries) \cap DOMAIN f.stat_map
            /\ Len(f.entries) = Cardinality(Range(f.entries))
            /\ \A a, b \in DOMAIN f.entries :
                  a < b =>
                    \/ f.stat_map[f.entries[a]].st_mtime > f.stat_map[f.entries[b]].st_mtime
                    \/ /\ f.stat_map[f.entries[a]].st_mtime = f.stat_map[f.entries[b]].st_mtime
                       /\ IndexIn(f.raw_entries, f.entries[a])
                            < IndexIn(f.raw_entries, f.entries[b])
            /\ Len(f.children) <= Len(f.entries)
            /\ \A n \in DOMAIN f.children : f.children[n].path = f.entries[n]

\* Two entries of equal mtime, both built, in enumeration order.
C10_Witness ==
    \E k \in DOMAIN stack :
        LET f == stack[k] IN
        /\ f.pc = "recurse"
        /\ Len(f.raw_entries) = 2
        /\ Len(f.children) = 2
        /\ f.stat_map[f.raw_entries[1]].st_mtime = f.stat_map[f.raw_entries[2]].st_mtime
        /\ f.children[1].path = f.raw_entries[1]

\* The number a text starts with: its digits up to the first other character.
DigitValue(ch) == CHOOSE d \in 0..9 : Digit(d) = ch

IsDigit(ch) == \E d \in 0..9 : Digit(d) = ch

RECURSIVE LeadingInt(_, _)
LeadingInt(text, acc) ==
    IF text = <<>> \/ ~IsDigit(Head(text)) THEN acc
    ELSE LeadingInt(Tail(text), 10 * acc + DigitValue(Head(text)))

EndsWith(text, suffix) ==
    /\ Len(suffix) <= Len(text)
    /\ SubSeq(text, Len(text) - Len(suffix) + 1, Len(text)) = suffix

\* The text has the form <digits>.<digit> <unit>.
OneDecimal(text, unit) ==
    LET k == Len(text) - Len(UnitText(unit)) - 3
    IN  /\ k >= 1
        /\ EndsWith(text, <<" ">> \o UnitText(unit))
        /\ \A n \in 1..k : IsDigit(text[n])
        /\ text[k + 1] = "."
        /\ IsDigit(text[k + 2])

\* C8: human_size gives "1 byte" for 1, "<n> bytes" for any other count below
\* 1024, and otherwise a number with one decimal place in KiB, MiB, GiB or
\* TiB; no result in bytes, KiB, MiB or GiB shows a number of 1024.0 or more.
C8_HumanSizeBelow1024 ==
    size_h # NoText =>
        /\ num_bytes = 1 => size_h = <<"1", " ", "b", "y", "t", "e">>
        /\ (num_bytes # 1 /\ num_bytes < 1024) =>
              size_h = Decimal(num_bytes) \o <<" ", "b", "y", "t", "e", "s">>
        /\ num_bytes >= 1024 =>
              \E u \in {"KiB", "MiB", "GiB", "TiB"} : OneDecimal(size_h, u)
        /\ ~EndsWith(size_h, UnitText("TiB")) => LeadingInt(size_h, 0) < 1024

Count(text, ch) == Cardinality({ n \in DOMAIN text : text[n] = ch })

RECURSIVE TagCount(_)
TagCount(node) ==
    IF node.is_dir
    THEN LET RECURSIVE Below(_)
             Below(k) == IF k = 0 THEN 0
                         ELSE Below(k - 1) + TagCount(node.children[k])
         IN  8 + Below(Len(node.children))
    ELSE 4

StartsEntity(text, n) ==
    \E e \in { <<"&", "a", "m", "p", ";">>, <<"&", "l", "t", ";">>,
               <<"&", "g", "t", ";">> } :
        /\ n + Len(e) - 1 <= Len(text)
        /\ SubSeq(text, n, n + Len(e) - 1) = e

\* C9: in the fragment to_html returns, every raw "<" and ">" belongs to one
\* of the fixed tags (four for a file, eight for a directory) and every raw "&"
\* starts an escape sequence; no character of a name is one of them.
C9_NameOnlyEscaped ==
    html_tree # NoText =>
        /\ Count(html_tree, "<") = TagCount(root_node)
        /\ Count(html_tree, ">") = TagCount(root_node)
        /\ \A n \in DOMAIN html_tree : html_tree[n] = "&" => StartsEntity(html_tree, n)

\* A rendered directory holding a directory and a file whose names are made of
\* "<", ">" and "&".
C9_Witness ==
    /\ html_tree # NoText
    /\ root_node.is_dir
    /\ Len(root_node.children) = 2
    /\ root_node.children[1].name = <<"<", "&">>
    /\ root_node.children[1].children[1].name = <<">", "<">>

====
